---- MODULE Spec2Model ----
(***************************************************************************)
(* Model of src/App.tsx: the campus map view.  State is the React state    *)
(* of App (incidents, tooltipData, selectedIncident,                       *)
(* highlightedIncidentId), its refs (sceneRef, interactiveObjectsRef,      *)
(* highlightedObjectsRef, the two overlay groups) and what the scene       *)
(* effect attaches to the page (renderer surfaces, listeners, frame        *)
(* loops).  One action is one browser event: the handler body followed by  *)
(* the re-render and the effect runs React performs for the state updates  *)
(* of that handler (React flushes them before the next event is handled).  *)
(*                                                                         *)
(* Conventions                                                             *)
(*  - the Korean facility names are written in Latin letters; a name such  *)
(*    as 'Bongwandong - Gyosil' is the tuple of its ' - ' separated parts, *)
(*    so that startsWith and split(' - ')[1] are computed.                 *)
(*  - coordinates are in hundredths of a scene unit (2.5 is 250).          *)
(*  - a calendar date 'YYYY-MM-DD' is <<y, m, d>>; getTime() is counted in *)
(*    days (86 400 000 ms), the date-only form being parsed as UTC         *)
(*    midnight.                                                            *)
(*  - a decimal string is the sequence of its digits.                      *)
(*  - an incident object is referred to by its index in the append-only    *)
(*    store; 0 is null.                                                    *)
(***************************************************************************)
EXTENDS Integers, Sequences, FiniteSets, TLC

VARIABLES
    now,                      \* Date.now(), the clock read by handleAddIncident
    mounted,                  \* the App component is mounted
    incidents,                \* useState<Incident[]>
    sortedIncidents,          \* useMemo: the list panel's entries (store indices)
    tooltipData,              \* useState<TooltipData>
    selectedIncident,         \* useState<Incident | null> (store index, 0 = null)
    highlightedIncidentId,    \* useState<number | null> (0 = null)
    sceneRef,                 \* generation of the scene in sceneRef.current, 0 = null
    material,                 \* mesh.material of every reachable renderable object
    highlightedObjectsRef,    \* HighlightedObject[]
    incidentMarkersRef,       \* children of the marker group
    mainBuildingIncidentsRef, \* children of the main-building overlay group
    interactiveObjectsRef,    \* candidate list of the raycaster
    hoveredObject,            \* closure variable of the live scene effect
    closureSelectedIncident,  \* selectedIncident as the live scene effect's closure holds it
    sceneBuilds,              \* number of runs of the scene effect body
    sceneCleanups,            \* number of runs of the scene effect cleanup
    overlaySyncs,             \* number of runs of the overlay effect
    mountChildren,            \* scene generations whose two renderer surfaces are in the mount
    listeners,                \* scene generations whose resize/mousemove listeners are registered
    renderLoops,              \* scene generations whose animate loop is scheduled
    lastEvent                 \* the event handled last (observation only)

vars == <<now, mounted, incidents, sortedIncidents, tooltipData, selectedIncident,
          highlightedIncidentId, sceneRef, material, highlightedObjectsRef,
          incidentMarkersRef, mainBuildingIncidentsRef, interactiveObjectsRef,
          hoveredObject, closureSelectedIncident, sceneBuilds, sceneCleanups,
          overlaySyncs, mountChildren, listeners, renderLoops, lastEvent>>

----------------------------------------------------------------------------
(* Bounds of the model *)

MaxIncidents == 2
MaxNow == 2
MaxSceneBuilds == 3

----------------------------------------------------------------------------
(* Facility and building definitions *)

MainBuilding == "Bongwandong"
Gymnasium == "Cheyukgwan"

NoName == << >>

mainBuildingPosition == <<-1500, 250, 0>>
mainBuildingSize == <<1000, 500, 2000>>

mainBuildingParts ==
    [loc \in {<<MainBuilding, "Gyosil">>, <<MainBuilding, "Bokdo">>, <<MainBuilding, "Hwajangsil">>} |->
        CASE loc[2] = "Gyosil" ->
                << [position |-> <<-1800, 240, 650>>, size |-> <<400, 480, 600>>, color |-> "#F59E0B"],
                   [position |-> <<-1200, 240, 650>>, size |-> <<400, 480, 600>>, color |-> "#F59E0B"],
                   [position |-> <<-1800, 240, -150>>, size |-> <<400, 480, 600>>, color |-> "#F59E0B"],
                   [position |-> <<-1200, 240, -150>>, size |-> <<400, 480, 600>>, color |-> "#F59E0B"] >>
          [] loc[2] = "Bokdo" ->
                << [position |-> <<-1500, 240, 0>>, size |-> <<200, 480, 2000>>, color |-> "#D1D5DB"] >>
          [] loc[2] = "Hwajangsil" ->
                << [position |-> <<-1800, 240, -800>>, size |-> <<400, 480, 400>>, color |-> "#60A5FA"],
                   [position |-> <<-1200, 240, -800>>, size |-> <<400, 480, 400>>, color |-> "#60A5FA"] >>]

facilities ==
    << [name |-> <<MainBuilding, "Gyosil">>, position |-> <<-1500, 500, 250>>, size |-> <<100, 100, 100>>, color |-> "", type |-> "box"],
       [name |-> <<MainBuilding, "Bokdo">>, position |-> <<-1500, 500, 0>>, size |-> <<100, 100, 100>>, color |-> "", type |-> "box"],
       [name |-> <<MainBuilding, "Hwajangsil">>, position |-> <<-1500, 500, -800>>, size |-> <<100, 100, 100>>, color |-> "", type |-> "box"],
       [name |-> <<Gymnasium>>, position |-> <<1500, 400, 1000>>, size |-> <<1500, 800, 1200>>, color |-> "#0000FF", type |-> "box"],
       [name |-> <<"Jeongbohwadong">>, position |-> <<1500, 200, -1000>>, size |-> <<1000, 400, 800>>, color |-> "#008000", type |-> "box"],
       [name |-> <<"Undongjang">>, position |-> <<0, 5, 0>>, size |-> <<2000, 3000, 0>>, color |-> "#A0522D", type |-> "plane"],
       [name |-> <<"Geupsiksil">>, position |-> <<-500, 150, 1500>>, size |-> <<800, 300, 600>>, color |-> "#FFA500", type |-> "box"],
       [name |-> <<"Haksaengsikdang">>, position |-> <<-500, 150, 2200>>, size |-> <<800, 300, 800>>, color |-> "#2DD4BF", type |-> "box"],
       [name |-> <<"Changgo">>, position |-> <<2000, 100, 0>>, size |-> <<400, 200, 400>>, color |-> "#A9A9A9", type |-> "box"] >>

facilityLocations == [k \in 1..Len(facilities) |-> facilities[k].name]

Range(s) == {s[k] : k \in 1..Len(s)}

\* locationName.startsWith of the main building's name
StartsWithMainBuilding(name) == Len(name) >= 1 /\ name[1] = MainBuilding

\* facilities.find(f => f.name === name): the index of the first match, 0 for undefined
FindFacility(name) ==
    IF \E k \in 1..Len(facilities) : facilities[k].name = name
    THEN CHOOSE k \in 1..Len(facilities) :
            /\ facilities[k].name = name
            /\ \A j \in 1..(k - 1) : facilities[j].name # name
    ELSE 0

----------------------------------------------------------------------------
(* Scene objects and materials.                                            *)
(* An object is identified by the run of the effect that created it        *)
(* (grp, gen) and its place in what that run builds (loc, part, idx).  A   *)
(* material instance is identified by the object it was created for or     *)
(* the variable that holds it (inst), and a clone by the mesh it was       *)
(* cloned for (owner).                                                     *)

Undefined == << >>

ObjRef(grp, gen, loc, part, idx) ==
    [grp |-> grp, gen |-> gen, loc |-> loc, part |-> part, idx |-> idx]

NoObject == ObjRef("", 0, NoName, "", 0)

NewMaterial(grp, gen, loc, inst, class) ==
    [grp |-> grp, gen |-> gen, loc |-> loc, inst |-> inst, class |-> class,
     clone |-> FALSE, owner |-> NoObject, treated |-> "none"]

\* What one child of a scene looks like to traverse(): its tags and whether
\* it has a material.
Node(ref, name, location, type, inst, class) ==
    [ref |-> ref, name |-> name, location |-> location, type |-> type,
     inst |-> inst, class |-> class]

Std == "MeshStandardMaterial"
Basic == "MeshBasicMaterial"
Line == "LineBasicMaterial"

\* createGymnasium: the group, its meshes and sub-groups in add order, after
\* the final traverse that tags every child with userData.location and
\* names every mesh.  The group itself is named by the scene effect.
createGymnasium(gen) ==
    LET G == <<Gymnasium>>
        grp(part) == Node(ObjRef("scene", gen, NoName, part, 0), NoName, G, "Group", "", "")
        mesh(part, inst, class) ==
            Node(ObjRef("scene", gen, NoName, part, 0), G, G, "Mesh", inst, class)
    IN  << Node(ObjRef("scene", gen, NoName, "gymGroup", 0), G, G, "Group", "", ""),
           mesh("gym.floor", "floorMat", Std),
           mesh("gym.centerCircle", "centerCircleMat", Basic),
           grp("gym.hoop1"),
           mesh("gym.hoop1.post", "hoop1.postMat", Std),
           mesh("gym.hoop1.backboard", "hoop1.backboardMat", Std),
           mesh("gym.hoop1.rim", "hoop1.rimMat", Std),
           grp("gym.hoop2"),
           mesh("gym.hoop2.post", "hoop2.postMat", Std),
           mesh("gym.hoop2.backboard", "hoop2.backboardMat", Std),
           mesh("gym.hoop2.rim", "hoop2.rimMat", Std),
           grp("gym.bench1"),
           mesh("gym.bench1.seat", "benchMat", Std),
           mesh("gym.bench1.leg1", "benchMat", Std),
           mesh("gym.bench1.leg2", "benchMat", Std),
           mesh("gym.wall1", "wallMaterial", Std),
           mesh("gym.wall2", "wallMaterial", Std),
           mesh("gym.wall3", "wallMaterial", Std) >>

RECURSIVE FacilityNodes(_, _)
\* otherFacilities.forEach: the facility's object and its label, in registry order
FacilityNodes(gen, k) ==
    IF k > Len(facilities) THEN << >>
    ELSE LET f == facilities[k]
             label == << Node(ObjRef("scene", gen, f.name, "label", 0),
                              NoName, Undefined, "Object3D", "", "") >>
             own == IF f.name = <<Gymnasium>>
                    THEN createGymnasium(gen)
                    ELSE << Node(ObjRef("scene", gen, f.name, "mesh", 0),
                                 f.name, Undefined, "Mesh", "facilityMat", Std) >>
         IN  IF StartsWithMainBuilding(f.name)
             THEN FacilityNodes(gen, k + 1)
             ELSE own \o label \o FacilityNodes(gen, k + 1)

\* The objects the scene effect adds, in the order traverse() visits them,
\* up to the two overlay groups.
StaticScene(gen) ==
    LET obj(part, type) == Node(ObjRef("scene", gen, NoName, part, 0), NoName, Undefined, type, "", "")
    IN  << obj("scene", "Scene"),
           obj("ambientLight", "AmbientLight"),
           obj("directionalLight", "DirectionalLight"),
           Node(ObjRef("scene", gen, NoName, "floor", 0), NoName, Undefined, "Mesh", "floorMaterial", Std),
           Node(ObjRef("scene", gen, NoName, "line", 0), <<MainBuilding>>, Undefined, "LineSegments", "lineMat", Line),
           obj("mainBuildingLabel", "Object3D") >>
        \o FacilityNodes(gen, 1)

\* The material each mesh of a node list is constructed with.
InitialMaterials(nodes) ==
    LET meshes == {n \in Range(nodes) : n.inst # ""}
    IN  [r \in {n.ref : n \in meshes} |->
            LET n == CHOOSE m \in meshes : m.ref = r
            IN  NewMaterial(r.grp, r.gen, r.loc,
                            IF r.grp = "overlay" THEN "partMat" ELSE n.inst,
                            n.class)]

\* An overlay child as traverse() sees it.
OverlayNode(e) ==
    IF e.kind = "mesh"
    THEN Node(e.ref, NoName, e.location, "Mesh", "partMat", Std)
    ELSE Node(e.ref, NoName, Undefined, "Object3D", "", "")

\* scene.traverse order of the scene of generation gen with the two overlay
\* groups as they are now.
Traverse(gen, markers, mainOverlay) ==
    StaticScene(gen)
    \o << Node(ObjRef("overlay", 0, NoName, "incidentMarkers", 0), NoName, Undefined, "Group", "", "") >>
    \o [k \in 1..Len(markers) |-> OverlayNode(markers[k])]
    \o << Node(ObjRef("overlay", 0, NoName, "mainBuildingIncidents", 0), NoName, Undefined, "Group", "", "") >>
    \o [k \in 1..Len(mainOverlay) |-> OverlayNode(mainOverlay[k])]

----------------------------------------------------------------------------
(* Highlighting logic *)

RECURSIVE RestoreEach(_, _, _)
RestoreEach(mat, recs, k) ==
    IF k > Len(recs) THEN mat
    ELSE RestoreEach([mat EXCEPT ![recs[k].object] = recs[k].originalMaterial], recs, k + 1)

\* unhighlightAllObjects that empties the records without restoring
unhighlightAllObjectsNoRestore(mat, recs) ==
    [material |-> mat, highlighted |-> << >>]

\* unhighlightAllObjects that restores and keeps the records
unhighlightAllObjectsKeepRecords(mat, recs) ==
    [material |-> RestoreEach(mat, recs, 1), highlighted |-> recs]

\* unhighlightAllObjects: every recorded object gets its saved material
\* back and the record list is emptied.
unhighlightAllObjects(mat, recs) ==
    [material |-> RestoreEach(mat, recs, 1), highlighted |-> << >>]

\* material.clone() followed by applyHighlight: a new instance for this
\* mesh; standard materials get the emissive colour, line materials are
\* recoloured, other classes are left as cloned.
HighlightMaterial(originalMaterial, mesh) ==
    [originalMaterial EXCEPT
        !.clone = TRUE,
        !.owner = mesh,
        !.treated = IF originalMaterial.class = Std THEN "emissive"
                    ELSE IF originalMaterial.class = Line THEN "color"
                    ELSE @]

RECURSIVE HighlightEachNoDedupe(_, _, _)
\* HighlightEach without the test for an object already recorded
HighlightEachNoDedupe(objs, k, st) ==
    IF k > Len(objs) THEN st
    ELSE LET obj == objs[k]
             skip == \/ obj.type = "Group"
                     \/ obj.inst = ""
             originalMaterial == st.material[obj.ref]
         IN  IF skip THEN HighlightEachNoDedupe(objs, k + 1, st)
             ELSE HighlightEachNoDedupe(objs, k + 1,
                    [material |-> [st.material EXCEPT ![obj.ref] = HighlightMaterial(originalMaterial, obj.ref)],
                     highlighted |-> Append(st.highlighted,
                                            [object |-> obj.ref, originalMaterial |-> originalMaterial])])

RECURSIVE HighlightEach(_, _, _)
\* objectsToHighlight.forEach
HighlightEach(objs, k, st) ==
    IF k > Len(objs) THEN st
    ELSE LET obj == objs[k]
             skip == \/ obj.type = "Group"
                     \/ obj.inst = ""
                     \/ \E j \in 1..Len(st.highlighted) : st.highlighted[j].object = obj.ref
             originalMaterial == st.material[obj.ref]
         IN  IF skip THEN HighlightEach(objs, k + 1, st)
             ELSE HighlightEach(objs, k + 1,
                    [material |-> [st.material EXCEPT ![obj.ref] = HighlightMaterial(originalMaterial, obj.ref)],
                     highlighted |-> Append(st.highlighted,
                                            [object |-> obj.ref, originalMaterial |-> originalMaterial])])

\* scene.getObjectByName: the first object in traversal order, as a list of
\* zero or one node
GetObjectByName(nodes, name) ==
    LET hits == {k \in 1..Len(nodes) : nodes[k].name = name}
    IN  IF hits = {} THEN << >>
        ELSE << nodes[CHOOSE k \in hits : \A j \in hits : k <= j] >>

\* ObjectsToHighlight that asks for both tags to match
ObjectsToHighlightBothTags(locationName, nodes) ==
    SelectSeq(nodes, LAMBDA n : n.name = locationName /\ n.location = locationName)
    \o (IF StartsWithMainBuilding(locationName)
        THEN GetObjectByName(nodes, <<MainBuilding>>)
        ELSE << >>)

\* The list highlightObjectsByLocation collects before it highlights.
ObjectsToHighlight(locationName, nodes) ==
    SelectSeq(nodes, LAMBDA n : n.name = locationName \/ n.location = locationName)
    \o (IF StartsWithMainBuilding(locationName)
        THEN GetObjectByName(nodes, <<MainBuilding>>)
        ELSE << >>)

\* highlightObjectsByLocation without the clear it starts with
highlightObjectsByLocationNoClear(locationName, scene, nodes, mat, recs) ==
    IF scene = 0 THEN [material |-> mat, highlighted |-> recs]
    ELSE HighlightEach(ObjectsToHighlight(locationName, nodes), 1,
                       [material |-> mat, highlighted |-> recs])

\* highlightObjectsByLocation on the scene sceneRef.current (nodes is its
\* traversal; scene = 0 is the null reference).
highlightObjectsByLocation(locationName, scene, nodes, mat, recs) ==
    LET cleared == unhighlightAllObjects(mat, recs)
    IN  IF scene = 0 THEN cleared
        ELSE HighlightEach(ObjectsToHighlight(locationName, nodes), 1, cleared)

----------------------------------------------------------------------------
(* Conversions *)

RECURSIVE ParseInt10(_)
\* parseInt(s, 10) of a string of decimal digits
ParseInt10(s) ==
    IF Len(s) = 0 THEN 0
    ELSE ParseInt10(SubSeq(s, 1, Len(s) - 1)) * 10 + s[Len(s)]

RECURSIVE NumberToString(_)
\* Number.prototype.toString of a non-negative integer
NumberToString(n) ==
    IF n < 10 THEN <<n>> ELSE Append(NumberToString(n \div 10), n % 10)

\* new Date('YYYY-MM-DD').getTime(), in days since 1970-01-01
GetTime(date) ==
    LET y == IF date[2] <= 2 THEN date[1] - 1 ELSE date[1]
        era == y \div 400
        yoe == y - era * 400
        mp == IF date[2] > 2 THEN date[2] - 3 ELSE date[2] + 9
        doy == (153 * mp + 2) \div 5 + date[3] - 1
        doe == yoe * 365 + yoe \div 4 - yoe \div 100 + doy
    IN  era * 146097 + doe - 719468

----------------------------------------------------------------------------
(* Incident visualization management (the overlay effect) *)

\* Index in acc of the entry of a location, 0 if there is none
AggIndex(acc, location) ==
    IF \E k \in 1..Len(acc) : acc[k].location = location
    THEN CHOOSE k \in 1..Len(acc) : acc[k].location = location
    ELSE 0

\* AggregateStep with the count assigned instead of accumulated
AggregateStepOverwrite(acc, incs, k) ==
    LET incident == incs[k]
        seen == AggIndex(acc, incident.location)
        acc1 == IF seen = 0
                THEN Append(acc, [location |-> incident.location, count |-> 0, latestIncident |-> k])
                ELSE acc
        e == AggIndex(acc1, incident.location)
        later == GetTime(incident.date) > GetTime(incs[acc1[e].latestIncident].date)
    IN  IF ~StartsWithMainBuilding(incident.location) THEN acc
        ELSE [acc1 EXCEPT ![e] = [location |-> @.location,
                                  count |-> incident.count,
                                  latestIncident |-> IF later THEN k ELSE @.latestIncident]]

\* AggregateStep with the date comparison dropped: the last incident wins
AggregateStepLastWins(acc, incs, k) ==
    LET incident == incs[k]
        seen == AggIndex(acc, incident.location)
        acc1 == IF seen = 0
                THEN Append(acc, [location |-> incident.location, count |-> 0, latestIncident |-> k])
                ELSE acc
        e == AggIndex(acc1, incident.location)
    IN  IF ~StartsWithMainBuilding(incident.location) THEN acc
        ELSE [acc1 EXCEPT ![e] = [location |-> @.location,
                                  count |-> @.count + incident.count,
                                  latestIncident |-> k]]

\* AggregateStep with the date comparison made non-strict: on equal dates
\* the incident met last replaces the one kept so far
AggregateStepTieLast(acc, incs, k) ==
    LET incident == incs[k]
        seen == AggIndex(acc, incident.location)
        acc1 == IF seen = 0
                THEN Append(acc, [location |-> incident.location, count |-> 0, latestIncident |-> k])
                ELSE acc
        e == AggIndex(acc1, incident.location)
        later == GetTime(incident.date) >= GetTime(incs[acc1[e].latestIncident].date)
    IN  IF ~StartsWithMainBuilding(incident.location) THEN acc
        ELSE [acc1 EXCEPT ![e] = [location |-> @.location,
                                  count |-> @.count + incident.count,
                                  latestIncident |-> IF later THEN k ELSE @.latestIncident]]

\* One step of the reduce callback for the incident at index k
AggregateStep(acc, incs, k) ==
    LET incident == incs[k]
        seen == AggIndex(acc, incident.location)
        acc1 == IF seen = 0
                THEN Append(acc, [location |-> incident.location, count |-> 0, latestIncident |-> k])
                ELSE acc
        e == AggIndex(acc1, incident.location)
        later == GetTime(incident.date) > GetTime(incs[acc1[e].latestIncident].date)
    IN  IF ~StartsWithMainBuilding(incident.location) THEN acc
        ELSE [acc1 EXCEPT ![e] = [location |-> @.location,
                                  count |-> @.count + incident.count,
                                  latestIncident |-> IF later THEN k ELSE @.latestIncident]]

RECURSIVE Reduce(_, _, _)
Reduce(acc, incs, k) ==
    IF k > Len(incs) THEN acc ELSE Reduce(AggregateStep(acc, incs, k), incs, k + 1)

\* mainBuildingAggregated: one entry per main-building location, in the
\* order the keys were inserted (the order for..in visits them)
mainBuildingAggregated(incs) == Reduce(<< >>, incs, 1)

Element(kind, ref, location, position, incident, shortName, text, className) ==
    [kind |-> kind, ref |-> ref, location |-> location, position |-> position,
     incident |-> incident, shortName |-> shortName, text |-> text, className |-> className]

MarkerClass(isHighlighted) == IF isHighlighted THEN "marker highlighted-marker" ELSE "marker"

\* What the for..in body adds to the main-building group for one entry
MainBuildingChildren(data, incs, highlightedId, sync) ==
    LET location == data.location
        parts == IF location \in DOMAIN mainBuildingParts THEN mainBuildingParts[location] ELSE << >>
        meshes == [k \in 1..Len(parts) |->
                      Element("mesh", ObjRef("overlay", sync, location, "part", k), location,
                              parts[k].position, 0, "", << >>, "")]
        f == FindFacility(location)
        labelY == mainBuildingPosition[2] + mainBuildingSize[2] \div 2 + 300
        label == Element("label", ObjRef("overlay", sync, location, "label", 0), Undefined,
                         <<facilities[f].position[1], labelY, facilities[f].position[3]>>,
                         data.latestIncident, location[2], NumberToString(data.count),
                         MarkerClass(incs[data.latestIncident].id = highlightedId))
    IN  IF location \notin DOMAIN mainBuildingParts THEN << >>
        ELSE IF f = 0 THEN meshes
        ELSE Append(meshes, label)

RECURSIVE MainBuildingOverlay(_, _, _, _, _)
MainBuildingOverlay(agg, k, incs, highlightedId, sync) ==
    IF k > Len(agg) THEN << >>
    ELSE MainBuildingChildren(agg[k], incs, highlightedId, sync)
         \o MainBuildingOverlay(agg, k + 1, incs, highlightedId, sync)

\* What incidents.forEach adds to the marker group for the incident at index k
MarkerFor(incs, k, highlightedId, sync) ==
    LET incident == incs[k]
        f == FindFacility(incident.location)
        facility == facilities[f]
        markerY == IF facility.name = <<Gymnasium>> THEN facility.size[2] + 200
                   ELSE IF facility.type = "box"
                        THEN facility.position[2] + facility.size[2] \div 2 + 300
                        ELSE facility.position[2] + 300
    IN  IF StartsWithMainBuilding(incident.location) \/ f = 0 THEN << >>
        ELSE << Element("marker", ObjRef("overlay", sync, incident.location, "marker", k), Undefined,
                        <<facility.position[1], markerY, facility.position[3]>>,
                        k, "", NumberToString(incident.count),
                        MarkerClass(incident.id = highlightedId)) >>

RECURSIVE Markers(_, _, _, _)
Markers(incs, k, highlightedId, sync) ==
    IF k > Len(incs) THEN << >>
    ELSE MarkerFor(incs, k, highlightedId, sync) \o Markers(incs, k + 1, highlightedId, sync)

\* OverlayEffect without the two clear() calls it starts with
OverlayEffectNoClear(incs, highlightedId, sync) ==
    LET main == MainBuildingOverlay(mainBuildingAggregated(incs), 1, incs, highlightedId, sync)
        markers == Markers(incs, 1, highlightedId, sync)
    IN  [incidentMarkers |-> incidentMarkersRef \o markers,
         mainBuildingIncidents |-> mainBuildingIncidentsRef \o main,
         interactiveObjects |-> SelectSeq(main, LAMBDA e : e.kind = "label") \o markers]

\* The overlay effect: both groups are cleared and rebuilt from the store,
\* and the new labels and markers are published for picking.
OverlayEffect(incs, highlightedId, sync) ==
    LET main == MainBuildingOverlay(mainBuildingAggregated(incs), 1, incs, highlightedId, sync)
        markers == Markers(incs, 1, highlightedId, sync)
    IN  [incidentMarkers |-> markers,
         mainBuildingIncidents |-> main,
         interactiveObjects |-> SelectSeq(main, LAMBDA e : e.kind = "label") \o markers]

\* sortedIncidents: [...incidents].sort by date descending; the sort is
\* stable.  Returns the store as the call leaves it and the sorted view.
RECURSIVE SortDesc(_, _, _)
SortDesc(incs, k, sorted) ==
    IF k > Len(incs) THEN sorted
    ELSE LET before == {j \in 1..Len(sorted) :
                           \A i \in 1..j : GetTime(incs[sorted[i]].date) - GetTime(incs[k].date) >= 0}
             n == Cardinality(before)
         IN  SortDesc(incs, k + 1,
                      SubSeq(sorted, 1, n) \o <<k>> \o SubSeq(sorted, n + 1, Len(sorted)))

\* SortedIncidents that sorts the store itself
SortedIncidentsInPlace(incs) ==
    [store |-> [k \in 1..Len(incs) |-> incs[SortDesc(incs, 1, << >>)[k]]],
     view |-> [k \in 1..Len(incs) |-> k]]

SortedIncidents(incs) ==
    [store |-> incs, view |-> SortDesc(incs, 1, << >>)]

----------------------------------------------------------------------------
(* Inputs of the model *)

Dates == {<<2024, 2, 10>>, <<2024, 3, 1>>}
FormLocations == {<<MainBuilding, "Gyosil">>, <<MainBuilding, "Bokdo">>, <<Gymnasium>>, <<"Changgo">>}
CountInputs == {<<1>>, <<1, 2>>}
Causes == {"slip"}
PointerPositions == {<<1, 1>>}
\* Locations submitted where the pointer is followed: one with a marker of
\* its own and one shown by a main-building label
PointerLocations == {<<Gymnasium>>, <<MainBuilding, "Gyosil">>}
\* Values of the form's location field when it is not held to the options of
\* the select (handleAddIncident stores the string it reads as it is): two
\* registered names, the bare main-building name and a name no facility has.
SubmittedLocations == {<<MainBuilding, "Gyosil">>, <<Gymnasium>>, <<MainBuilding>>, <<"Juchajang">>}

----------------------------------------------------------------------------
(* Render and effects *)

Event(op, incident) == [op |-> op, incident |-> incident]

NoTooltip == [x |-> 0, y |-> 0, visible |-> FALSE, content |-> [date |-> << >>, cause |-> ""]]

MeshRefs(nodes) == {n.ref : n \in {m \in Range(nodes) : m.inst # ""}}

\* The re-render after a handler that left the state (newSel, newHid,
\* newIncs) and the highlight state st, with the effects whose dependencies
\* changed: the scene effect (cleanup of the previous run, then the body)
\* when selectedIncident changed, the overlay effect when incidents or
\* highlightedIncidentId changed.
Commit(newSel, newHid, newIncs, st) ==
    LET sceneRerun == newSel # selectedIncident
        overlayRerun == newIncs # incidents \/ newHid # highlightedIncidentId
        gen == IF sceneRerun THEN sceneBuilds + 1 ELSE sceneRef
        overlay == IF overlayRerun
                   THEN OverlayEffect(newIncs, newHid, overlaySyncs + 1)
                   ELSE [incidentMarkers |-> incidentMarkersRef,
                         mainBuildingIncidents |-> mainBuildingIncidentsRef,
                         interactiveObjects |-> interactiveObjectsRef]
        nodes == Traverse(gen, overlay.incidentMarkers, overlay.mainBuildingIncidents)
        created == InitialMaterials(nodes)
        kept == MeshRefs(nodes) \cup {st.highlighted[k].object : k \in 1..Len(st.highlighted)}
        sorted == SortedIncidents(newIncs)
    IN  /\ sceneRerun => sceneBuilds < MaxSceneBuilds
        /\ selectedIncident' = newSel
        /\ highlightedIncidentId' = newHid
        /\ incidents' = sorted.store
        /\ sortedIncidents' = sorted.view
        /\ highlightedObjectsRef' = st.highlighted
        /\ material' = [r \in kept |-> IF r \in DOMAIN st.material THEN st.material[r] ELSE created[r]]
        /\ sceneRef' = gen
        /\ sceneBuilds' = IF sceneRerun THEN sceneBuilds + 1 ELSE sceneBuilds
        /\ sceneCleanups' = IF sceneRerun THEN sceneCleanups + 1 ELSE sceneCleanups
        /\ mountChildren' = IF sceneRerun THEN (mountChildren \ {sceneRef}) \cup {gen} ELSE mountChildren
        /\ listeners' = IF sceneRerun THEN (listeners \ {sceneRef}) \cup {gen} ELSE listeners
        /\ renderLoops' = IF sceneRerun THEN renderLoops \cup {gen} ELSE renderLoops
        /\ hoveredObject' = IF sceneRerun THEN NoObject ELSE hoveredObject
        /\ closureSelectedIncident' = IF sceneRerun THEN newSel ELSE closureSelectedIncident
        /\ overlaySyncs' = IF overlayRerun THEN overlaySyncs + 1 ELSE overlaySyncs
        /\ incidentMarkersRef' = overlay.incidentMarkers
        /\ mainBuildingIncidentsRef' = overlay.mainBuildingIncidents
        /\ interactiveObjectsRef' = overlay.interactiveObjects

LiveNodes == Traverse(sceneRef, incidentMarkersRef, mainBuildingIncidentsRef)

----------------------------------------------------------------------------
(* Events *)

\* The clock advances.
Tick ==
    /\ mounted
    /\ now < MaxNow
    /\ now' = now + 1
    /\ UNCHANGED <<mounted, incidents, sortedIncidents, tooltipData, selectedIncident,
                   highlightedIncidentId, sceneRef, material, highlightedObjectsRef,
                   incidentMarkersRef, mainBuildingIncidentsRef, interactiveObjectsRef,
                   hoveredObject, closureSelectedIncident, sceneBuilds, sceneCleanups,
                   overlaySyncs, mountChildren, listeners, renderLoops, lastEvent>>

\* Form submission
handleAddIncident(date, location, count, cause) ==
    LET newIncident == [id |-> now, date |-> date, location |-> location,
                        count |-> ParseInt10(count), cause |-> cause]
    IN  /\ mounted
        /\ Len(incidents) < MaxIncidents
        /\ Commit(selectedIncident, highlightedIncidentId, Append(incidents, newIncident),
                  [material |-> material, highlighted |-> highlightedObjectsRef])
        /\ lastEvent' = Event("add", Len(incidents) + 1)
        /\ UNCHANGED <<now, mounted, tooltipData>>

\* Click on a marker, a main-building label or a list entry
handleIncidentSelect(incident) ==
    /\ mounted
    /\ Commit(incident, incidents[incident].id, incidents,
              highlightObjectsByLocation(incidents[incident].location, sceneRef, LiveNodes,
                                         material, highlightedObjectsRef))
    /\ tooltipData' = [tooltipData EXCEPT !.visible = FALSE]
    /\ lastEvent' = Event("select", incident)
    /\ UNCHANGED <<now, mounted>>

MarkerClick ==
    \E k \in 1..Len(interactiveObjectsRef) :
        handleIncidentSelect(interactiveObjectsRef[k].incident)

ListClick ==
    \E k \in 1..Len(sortedIncidents) :
        handleIncidentSelect(sortedIncidents[k])

\* handleCloseModal without setHighlightedIncidentId(null)
handleCloseModalKeepsId ==
    /\ mounted
    /\ selectedIncident # 0
    /\ Commit(0, highlightedIncidentId, incidents,
              unhighlightAllObjects(material, highlightedObjectsRef))
    /\ lastEvent' = Event("close", selectedIncident)
    /\ UNCHANGED <<now, mounted, tooltipData>>

\* Click on the modal's backdrop or its close button
handleCloseModal ==
    /\ mounted
    /\ selectedIncident # 0
    /\ Commit(0, 0, incidents, unhighlightAllObjects(material, highlightedObjectsRef))
    /\ lastEvent' = Event("close", selectedIncident)
    /\ UNCHANGED <<now, mounted, tooltipData>>

\* onMouseMove without the test of selectedIncident it starts with
onMouseMoveNoGuard(clientX, clientY, hit) ==
    LET first == interactiveObjectsRef[hit]
        shown == IF hit > 0 /\ hoveredObject # first.ref /\ first.incident # 0
                 THEN [x |-> clientX, y |-> clientY, visible |-> TRUE,
                       content |-> [date |-> incidents[first.incident].date,
                                    cause |-> incidents[first.incident].cause]]
                 ELSE tooltipData
    IN  /\ mounted
        /\ sceneRef \in listeners
        /\ lastEvent' = Event("mousemove", 0)
        /\ IF hit > 0
           THEN /\ hoveredObject' = first.ref
                /\ tooltipData' = [shown EXCEPT !.x = clientX, !.y = clientY]
           ELSE /\ hoveredObject' = NoObject
                /\ tooltipData' = IF hoveredObject # NoObject
                                  THEN [tooltipData EXCEPT !.visible = FALSE]
                                  ELSE tooltipData
        /\ UNCHANGED <<now, mounted, incidents, sortedIncidents, selectedIncident,
                       highlightedIncidentId, sceneRef, material, highlightedObjectsRef,
                       incidentMarkersRef, mainBuildingIncidentsRef, interactiveObjectsRef,
                       closureSelectedIncident, sceneBuilds, sceneCleanups, overlaySyncs,
                       mountChildren, listeners, renderLoops>>

\* Pointer move over the mount, handled by the listener of the live scene
\* effect; hit is the index of the first intersected interactive object, 0
\* when the ray intersects none.  The selectedIncident the handler tests is
\* the one of the render whose effect run registered it.
onMouseMove(clientX, clientY, hit) ==
    LET first == interactiveObjectsRef[hit]
        shown == IF hit > 0 /\ hoveredObject # first.ref /\ first.incident # 0
                 THEN [x |-> clientX, y |-> clientY, visible |-> TRUE,
                       content |-> [date |-> incidents[first.incident].date,
                                    cause |-> incidents[first.incident].cause]]
                 ELSE tooltipData
    IN  /\ mounted
        /\ sceneRef \in listeners
        /\ lastEvent' = Event("mousemove", 0)
        /\ IF closureSelectedIncident # 0
           THEN UNCHANGED <<tooltipData, hoveredObject>>
           ELSE IF hit > 0
           THEN /\ hoveredObject' = first.ref
                /\ tooltipData' = [shown EXCEPT !.x = clientX, !.y = clientY]
           ELSE /\ hoveredObject' = NoObject
                /\ tooltipData' = IF hoveredObject # NoObject
                                  THEN [tooltipData EXCEPT !.visible = FALSE]
                                  ELSE tooltipData
        /\ UNCHANGED <<now, mounted, incidents, sortedIncidents, selectedIncident,
                       highlightedIncidentId, sceneRef, material, highlightedObjectsRef,
                       incidentMarkersRef, mainBuildingIncidentsRef, interactiveObjectsRef,
                       closureSelectedIncident, sceneBuilds, sceneCleanups, overlaySyncs,
                       mountChildren, listeners, renderLoops>>

\* The hosting view is torn down: the cleanup of the scene effect runs.
Unmount ==
    /\ mounted
    /\ mounted' = FALSE
    /\ sceneRef' = 0
    /\ sceneCleanups' = sceneCleanups + 1
    /\ mountChildren' = mountChildren \ {sceneRef}
    /\ listeners' = listeners \ {sceneRef}
    /\ lastEvent' = Event("unmount", 0)
    /\ UNCHANGED <<now, incidents, sortedIncidents, tooltipData, selectedIncident,
                   highlightedIncidentId, material, highlightedObjectsRef,
                   incidentMarkersRef, mainBuildingIncidentsRef, interactiveObjectsRef,
                   hoveredObject, closureSelectedIncident, sceneBuilds, overlaySyncs,
                   renderLoops>>

\* The state after the first render and its effects: the scene effect has
\* built scene 1 and the overlay effect has run on the empty store.
Init ==
    /\ now = 1
    /\ mounted = TRUE
    /\ incidents = << >>
    /\ sortedIncidents = << >>
    /\ tooltipData = NoTooltip
    /\ selectedIncident = 0
    /\ highlightedIncidentId = 0
    /\ sceneRef = 1
    /\ material = InitialMaterials(Traverse(1, << >>, << >>))
    /\ highlightedObjectsRef = << >>
    /\ incidentMarkersRef = << >>
    /\ mainBuildingIncidentsRef = << >>
    /\ interactiveObjectsRef = << >>
    /\ hoveredObject = NoObject
    /\ closureSelectedIncident = 0
    /\ sceneBuilds = 1
    /\ sceneCleanups = 0
    /\ overlaySyncs = 1
    /\ mountChildren = {1}
    /\ listeners = {1}
    /\ renderLoops = {1}
    /\ lastEvent = Event("mount", 0)

Next ==
    \/ Tick
    \/ \E date \in Dates, location \in FormLocations, count \in CountInputs, cause \in Causes :
          handleAddIncident(date, location, count, cause)
    \/ MarkerClick
    \/ ListClick
    \/ handleCloseModal
    \/ Unmount

Spec == Init /\ [][Next]_vars

\* The same events with the submitted location taken from SubmittedLocations
NextAnyLocation ==
    \/ Tick
    \/ \E date \in Dates, location \in SubmittedLocations, count \in CountInputs, cause \in Causes :
          handleAddIncident(date, location, count, cause)
    \/ MarkerClick
    \/ ListClick
    \/ handleCloseModal
    \/ Unmount

SpecAnyLocation == Init /\ [][NextAnyLocation]_vars

\* The events with the pointer moving over the mount; the ray may hit any
\* of the published interactive objects or none
NextPointer ==
    \/ Tick
    \/ \E date \in Dates, location \in PointerLocations, cause \in Causes :
          handleAddIncident(date, location, <<1>>, cause)
    \/ MarkerClick
    \/ ListClick
    \/ handleCloseModal
    \/ \E position \in PointerPositions, hit \in 0..Len(interactiveObjectsRef) :
          onMouseMove(position[1], position[2], hit)
    \/ Unmount

SpecPointer == Init /\ [][NextPointer]_vars

----------------------------------------------------------------------------
(* Vocabulary of the properties *)

RECURSIVE SumCounts(_, _)
\* Sum of count over the stored incidents with the given location
SumCounts(incs, location) ==
    IF Len(incs) = 0 THEN 0
    ELSE SumCounts(SubSeq(incs, 1, Len(incs) - 1), location)
         + (IF incs[Len(incs)].location = location THEN incs[Len(incs)].count ELSE 0)

RECURSIVE SumShown(_)
\* Sum of the numbers shown by a list of markers or labels
SumShown(elements) ==
    IF Len(elements) = 0 THEN 0
    ELSE SumShown(SubSeq(elements, 1, Len(elements) - 1)) + ParseInt10(elements[Len(elements)].text)

\* The overlay elements of a kind anchored above a facility (same x and z)
ShownAt(elements, kind, facility) ==
    SelectSeq(elements, LAMBDA e : /\ e.kind = kind
                                   /\ e.position[1] = facility.position[1]
                                   /\ e.position[3] = facility.position[3])

RegisteredMain == {k \in 1..Len(facilities) : StartsWithMainBuilding(facilities[k].name)}
RegisteredOther == {k \in 1..Len(facilities) : ~StartsWithMainBuilding(facilities[k].name)}

StoredAt(location) == {k \in 1..Len(incidents) : incidents[k].location = location}

\* C1: after any sequence of additions and the overlay synchronization that
\* follows each, the counts shown by the markers above a registered facility
\* outside the main building add up to the sum of count of the stored
\* incidents of that facility, and a main-building sub-location has one label
\* showing the sum of count of its stored incidents (and no label when it has
\* none).
C1_OverlayCountsMatchStore ==
    mounted =>
        /\ \A k \in RegisteredOther :
              SumShown(ShownAt(incidentMarkersRef, "marker", facilities[k]))
                 = SumCounts(incidents, facilities[k].name)
        /\ \A k \in RegisteredMain :
              LET labels == ShownAt(mainBuildingIncidentsRef, "label", facilities[k])
              IN  /\ Len(labels) = (IF StoredAt(facilities[k].name) = {} THEN 0 ELSE 1)
                  /\ SumShown(labels) = SumCounts(incidents, facilities[k].name)
                  /\ \A j \in 1..Len(labels) : labels[j].shortName = facilities[k].name[2]

C1_Witness ==
    /\ mounted
    /\ lastEvent.op = "add"
    /\ Len(incidents) = 2
    /\ incidents[1].location = incidents[2].location
    /\ StartsWithMainBuilding(incidents[1].location)
    /\ incidents[1].count # incidents[2].count
    /\ \E k \in 1..Len(mainBuildingIncidentsRef) :
          /\ mainBuildingIncidentsRef[k].kind = "label"
          /\ mainBuildingIncidentsRef[k].text = <<1, 3>>


\* The renderable objects of the live scene
LiveMeshes == MeshRefs(LiveNodes)

\* The objects a highlight pass for the location collects in the live scene
Matched(location) == ObjectsToHighlight(location, LiveNodes)

RecordedObjects(recs) == {recs[k].object : k \in 1..Len(recs)}

\* The location resolves to at least one object of the live scene: one that
\* bears it as name or as location attribute, or the main building's outline
\* for a location of the main building.
Resolves(location) ==
    \E n \in Range(LiveNodes) :
        \/ n.name = location
        \/ n.location = location
        \/ StartsWithMainBuilding(location) /\ n.name = <<MainBuilding>>

\* C2: selecting an incident whose location resolves to at least one scene
\* object leaves that incident selected (the one modal is open on it) and a
\* non-empty highlight record set whose objects carry a highlight material.
C2_SelectOpensModalAndHighlights ==
    (mounted /\ lastEvent.op = "select" /\ Resolves(incidents[lastEvent.incident].location)) =>
        /\ selectedIncident = lastEvent.incident
        /\ highlightedIncidentId = incidents[lastEvent.incident].id
        /\ highlightedObjectsRef # << >>
        /\ \A r \in RecordedObjects(highlightedObjectsRef) : material[r].clone

C2_Witness ==
    /\ mounted
    /\ lastEvent.op = "select"
    /\ Resolves(incidents[lastEvent.incident].location)
    /\ selectedIncident = lastEvent.incident
    /\ Len(highlightedObjectsRef) > 1

\* C3: while an incident is selected (the modal is open and pointer moves
\* are ignored), every renderable object of the live scene that is tagged
\* with the selected incident's location carries the highlight material.
C3_LiveSceneHighlightedWhileSelected ==
    (mounted /\ selectedIncident # 0) =>
        \A n \in Range(LiveNodes) :
            (/\ n.type # "Group"
             /\ n.inst # ""
             /\ \/ n.name = incidents[selectedIncident].location
                \/ n.location = incidents[selectedIncident].location)
            => material[n.ref].clone

\* The material every renderable object of the live scene was constructed with
OriginalMaterial == InitialMaterials(LiveNodes)

\* A highlight pass for the location on the live scene, and the clear after it
HighlightPass(location) ==
    highlightObjectsByLocation(location, sceneRef, LiveNodes, material, highlightedObjectsRef)

ClearAfter(pass) == unhighlightAllObjects(pass.material, pass.highlighted)

\* C4: for every location, a highlight pass followed by a clear leaves every
\* object the pass affected with the very material instance it had before it
\* was highlighted (the instance it was constructed with, not a clone), and
\* leaves the record set empty.
C4_HighlightThenClearRestores ==
    mounted =>
        \A location \in Range(facilityLocations) :
            LET pass == HighlightPass(location)
                after == ClearAfter(pass)
            IN  /\ after.highlighted = << >>
                /\ \A r \in RecordedObjects(pass.highlighted) :
                      /\ pass.material[r].clone
                      /\ after.material[r] = OriginalMaterial[r]
                      /\ ~material[r].clone => after.material[r] = material[r]

C4_Witness ==
    /\ mounted
    /\ lastEvent.op = "close"
    /\ highlightedObjectsRef = << >>
    /\ \E location \in Range(facilityLocations) :
          /\ StartsWithMainBuilding(location)
          /\ Len(HighlightPass(location).highlighted) > 1
          /\ \A r \in RecordedObjects(HighlightPass(location).highlighted) :
                ClearAfter(HighlightPass(location)).material[r] = OriginalMaterial[r]

\* C5: a highlight pass for location A followed, with no clear in between, by
\* a pass for a different location B leaves no object of A highlighted: every
\* object collected for A and not for B has its original material, and the
\* records hold only objects collected for B.  In every state the objects
\* that carry a highlight material are recorded ones.
C5_SecondPassClearsFirst ==
    mounted =>
        /\ \A A \in FormLocations, B \in FormLocations :
              A # B =>
                LET first == HighlightPass(A)
                    second == highlightObjectsByLocation(B, sceneRef, LiveNodes,
                                                         first.material, first.highlighted)
                    forA == {n.ref : n \in {m \in Range(Matched(A)) : m.inst # ""}}
                    forB == {n.ref : n \in {m \in Range(Matched(B)) : m.inst # ""}}
                IN  /\ \A r \in forA \ forB : second.material[r] = OriginalMaterial[r]
                    /\ RecordedObjects(second.highlighted) \subseteq forB
        /\ \A r \in DOMAIN material :
              material[r].clone => r \in RecordedObjects(highlightedObjectsRef)

C5_Witness ==
    /\ mounted
    /\ lastEvent.op = "select"
    /\ sceneCleanups = 2
    /\ Len(incidents) = 2
    /\ incidents[1].location # incidents[2].location
    /\ highlightedObjectsRef # << >>
    /\ Len(highlightedObjectsRef)
          = Cardinality({n.ref : n \in {m \in Range(Matched(incidents[selectedIncident].location)) :
                                            m.inst # ""}})


NoLiveHighlight == \A r \in LiveMeshes : ~material[r].clone

\* C6: closing the modal from an incident-selected state leaves
\* selectedIncident and highlightedIncidentId null, the record set empty and
\* no object of the live scene with a highlight material, and does not
\* change the incident store.
C6_CloseClearsSelection ==
    [][(selectedIncident # 0 /\ lastEvent'.op = "close") =>
          /\ selectedIncident' = 0
          /\ highlightedIncidentId' = 0
          /\ highlightedObjectsRef' = << >>
          /\ NoLiveHighlight'
          /\ incidents' = incidents]_vars

C6_Witness ==
    /\ mounted
    /\ lastEvent.op = "close"
    /\ selectedIncident = 0
    /\ Len(incidents) = 2
    /\ mainBuildingIncidentsRef # << >>

\* C7: the incident tagged on the label of a main-building sub-location has
\* a date not earlier than that of any stored incident of the sub-location,
\* whatever the insertion order.
C7_LabelTaggedWithLatest ==
    mounted =>
        \A k \in 1..Len(mainBuildingIncidentsRef) :
            LET label == mainBuildingIncidentsRef[k]
            IN  label.kind = "label" =>
                  /\ label.incident \in StoredAt(label.ref.loc)
                  /\ \A j \in StoredAt(label.ref.loc) :
                        GetTime(incidents[label.incident].date) >= GetTime(incidents[j].date)

C7_Witness ==
    /\ mounted
    /\ Len(incidents) = 2
    /\ incidents[1].location = incidents[2].location
    /\ GetTime(incidents[1].date) > GetTime(incidents[2].date)
    /\ \E k \in 1..Len(mainBuildingIncidentsRef) :
          /\ mainBuildingIncidentsRef[k].kind = "label"
          /\ mainBuildingIncidentsRef[k].incident = 1

IsPermutation(view, n) ==
    /\ Len(view) = n
    /\ \A k \in 1..n : \E j \in 1..n : view[j] = k

DateDescending(view, incs) ==
    \A k \in 1..(Len(view) - 1) :
        GetTime(incs[view[k]].date) >= GetTime(incs[view[k + 1]].date)

\* C8: after any sequence of additions the list panel shows a permutation of
\* the store ordered by date descending, and computing it leaves the store as
\* it was: a step only ever appends the submitted incident.
C8_ListSortedStoreKept ==
    [][/\ IsPermutation(sortedIncidents', Len(incidents'))
       /\ DateDescending(sortedIncidents', incidents')
       /\ Len(incidents') >= Len(incidents)
       /\ SubSeq(incidents', 1, Len(incidents)) = incidents
       /\ (Len(incidents') > Len(incidents) =>
             /\ lastEvent'.op = "add"
             /\ Len(incidents') = Len(incidents) + 1)]_vars

C8_Witness ==
    /\ mounted
    /\ lastEvent.op = "add"
    /\ Len(incidents) = 2
    /\ GetTime(incidents[1].date) < GetTime(incidents[2].date)
    /\ sortedIncidents = <<2, 1>>

\* C9: every submission appends one incident whose id differs from the id of
\* every stored incident, so that stored incidents have pairwise distinct ids.
C9_IdsPairwiseDistinct ==
    \A i \in 1..Len(incidents), j \in 1..Len(incidents) :
        i # j => incidents[i].id # incidents[j].id

\* C10: the scene is built once for the mounted view and its cleanup runs
\* once, at teardown: while mounted one build and no cleanup have happened
\* and the surfaces, listeners and frame loop are those of that build; after
\* unmount the cleanup has run exactly once.
C10_SceneBuiltOnceCleanedOnce ==
    /\ sceneBuilds = 1
    /\ mounted => (sceneCleanups = 0 /\ sceneRef = 1 /\ mountChildren = {1} /\ listeners = {1})
    /\ ~mounted => (sceneCleanups = 1 /\ sceneRef = 0 /\ mountChildren = {} /\ listeners = {})

\* The stored incidents of the location that bear its latest date
TiedLatest(location) ==
    {j \in StoredAt(location) :
        \A i \in StoredAt(location) : GetTime(incidents[j].date) >= GetTime(incidents[i].date)}

SetMin(S) == CHOOSE m \in S : \A n \in S : m <= n
SetMax(S) == CHOOSE m \in S : \A n \in S : m >= n

\* C11 as stated: when several incidents of a main-building sub-location
\* share its latest date, the incident tagged on the label is the last of
\* them in insertion order.
C11_TieLastWins ==
    mounted =>
        \A k \in 1..Len(mainBuildingIncidentsRef) :
            LET label == mainBuildingIncidentsRef[k]
            IN  label.kind = "label" => label.incident = SetMax(TiedLatest(label.ref.loc))

\* C11: when several incidents of a main-building sub-location share its
\* latest date, the incident tagged on the label is the first of them in
\* insertion order (an incident replaces the one kept only when its date is
\* strictly later).
C11_TieFirstWins ==
    mounted =>
        \A k \in 1..Len(mainBuildingIncidentsRef) :
            LET label == mainBuildingIncidentsRef[k]
            IN  label.kind = "label" => label.incident = SetMin(TiedLatest(label.ref.loc))

C11_Witness ==
    /\ mounted
    /\ Len(incidents) = 2
    /\ incidents[1].location = incidents[2].location
    /\ incidents[1].date = incidents[2].date
    /\ TiedLatest(incidents[1].location) = {1, 2}
    /\ \E k \in 1..Len(mainBuildingIncidentsRef) :
          /\ mainBuildingIncidentsRef[k].kind = "label"
          /\ mainBuildingIncidentsRef[k].incident = 1

\* The stored incidents that get a marker of their own: outside the main
\* building and at a registered facility
MarkerIncidents ==
    {k \in 1..Len(incidents) :
        /\ ~StartsWithMainBuilding(incidents[k].location)
        /\ incidents[k].location \in Range(facilityLocations)}

\* The registered main-building sub-locations with at least one stored incident
LabelLocations ==
    {location \in Range(facilityLocations) :
        StartsWithMainBuilding(location) /\ StoredAt(location) # {}}

OverlayLabels == SelectSeq(mainBuildingIncidentsRef, LAMBDA e : e.kind = "label")

\* C12: after every overlay synchronization the marker group holds exactly
\* one marker per stored incident outside the main building whose location
\* is registered, tagged with that incident; the main-building group holds
\* exactly one label per registered sub-location with a stored incident; the
\* published list is those labels and markers; nothing in the groups or the
\* list was created by an earlier synchronization.  An incident whose
\* location is not registered has no marker and leaves those of the others.
C12_OverlayReflectsStore ==
    mounted =>
        /\ \A k \in 1..Len(incidents) :
              Cardinality({j \in 1..Len(incidentMarkersRef) :
                              /\ incidentMarkersRef[j].kind = "marker"
                              /\ incidentMarkersRef[j].incident = k})
                 = (IF k \in MarkerIncidents THEN 1 ELSE 0)
        /\ Len(incidentMarkersRef) = Cardinality(MarkerIncidents)
        /\ \A location \in Range(facilityLocations) :
              Cardinality({j \in 1..Len(OverlayLabels) : OverlayLabels[j].ref.loc = location})
                 = (IF location \in LabelLocations THEN 1 ELSE 0)
        /\ Len(OverlayLabels) = Cardinality(LabelLocations)
        /\ Len(interactiveObjectsRef) = Len(OverlayLabels) + Len(incidentMarkersRef)
        /\ Range(interactiveObjectsRef) = Range(OverlayLabels) \cup Range(incidentMarkersRef)
        /\ \A e \in Range(incidentMarkersRef) \cup Range(mainBuildingIncidentsRef)
                     \cup Range(interactiveObjectsRef) :
              e.ref.gen = overlaySyncs

C12_Witness ==
    /\ mounted
    /\ lastEvent.op = "add"
    /\ overlaySyncs >= 3
    /\ Len(incidents) = 2
    /\ incidents[1].location = <<"Juchajang">>
    /\ incidents[2].location = <<Gymnasium>>
    /\ Len(incidentMarkersRef) = 1
    /\ incidentMarkersRef[1].incident = 2

\* C13: while an incident is selected a pointer move leaves the tooltip
\* state (position, visibility, content) and the hovered-object record as
\* they were, and the tooltip is hidden in every state in which an incident
\* is selected.
C13_PointerMoveSuppressed ==
    [][/\ (selectedIncident # 0 /\ lastEvent'.op = "mousemove") =>
             UNCHANGED <<tooltipData, hoveredObject>>
       /\ selectedIncident' # 0 => ~tooltipData'.visible]_vars

C13_Witness ==
    /\ mounted
    /\ selectedIncident # 0
    /\ lastEvent.op = "mousemove"
    /\ Len(interactiveObjectsRef) > 0
    /\ tooltipData.content.cause # ""
    /\ tooltipData.x = 1
    /\ ~tooltipData.visible

\* No two records of the list are for the same object
DistinctRecords(recs) ==
    \A i \in 1..Len(recs), j \in 1..Len(recs) : i # j => recs[i].object # recs[j].object

\* Every record of the list holds a material that is no highlight clone
OriginalsSaved(recs) == \A k \in 1..Len(recs) : ~recs[k].originalMaterial.clone

\* The renderable objects of the live scene the location is a tag of
TaggedFor(location) ==
    {n.ref : n \in {m \in Range(LiveNodes) :
                        /\ m.inst # ""
                        /\ \/ m.name = location
                           \/ m.location = location
                           \/ StartsWithMainBuilding(location) /\ m.name = <<MainBuilding>>}}

\* C14: in every reachable state the record set has at most one record per
\* object and every saved material is an original, not a highlight clone;
\* a highlight pass for any location, from any reachable state, ends with
\* records of that pass only (it starts from an empty set), one per object,
\* each with the material the object was constructed with, also for the
\* bare main-building name, whose outline the scan collects twice.
C14_OneRecordPerObject ==
    mounted =>
        /\ DistinctRecords(highlightedObjectsRef)
        /\ OriginalsSaved(highlightedObjectsRef)
        /\ \A location \in SubmittedLocations :
              LET pass == HighlightPass(location)
              IN  /\ DistinctRecords(pass.highlighted)
                  /\ OriginalsSaved(pass.highlighted)
                  /\ RecordedObjects(pass.highlighted) = TaggedFor(location)
                  /\ \A k \in 1..Len(pass.highlighted) :
                        pass.highlighted[k].originalMaterial
                           = OriginalMaterial[pass.highlighted[k].object]

C14_Witness ==
    /\ mounted
    /\ lastEvent.op = "select"
    /\ incidents[selectedIncident].location = <<MainBuilding>>
    /\ Len(Matched(<<MainBuilding>>)) = 2
    /\ Matched(<<MainBuilding>>)[1].ref = Matched(<<MainBuilding>>)[2].ref
    /\ Len(highlightedObjectsRef) = 1
    /\ ~highlightedObjectsRef[1].originalMaterial.clone
    /\ Len(HighlightPass(<<MainBuilding>>).highlighted) = 1

\* selectedIncident and highlightedIncidentId are both null, or an incident
\* of the store is selected and highlightedIncidentId is its id
SelectionAgrees ==
    /\ selectedIncident = 0 <=> highlightedIncidentId = 0
    /\ selectedIncident # 0 =>
          /\ selectedIncident \in 1..Len(incidents)
          /\ highlightedIncidentId = incidents[selectedIncident].id

\* C15: in every reachable state selectedIncident is null exactly when
\* highlightedIncidentId is null, and a selected incident is an incident of
\* the store whose id highlightedIncidentId equals; a step that adds an
\* incident changes neither of the two.
C15_SelectionAndHighlightedIdAgree ==
    [][/\ SelectionAgrees'
       /\ Len(incidents') > Len(incidents) =>
             UNCHANGED <<selectedIncident, highlightedIncidentId>>]_vars

C15_Witness ==
    /\ mounted
    /\ lastEvent.op = "add"
    /\ Len(incidents) = 2
    /\ selectedIncident = 1
    /\ highlightedIncidentId = incidents[1].id

\* C16: at any time at most one animate loop is scheduled and it renders
\* the live scene: while mounted the scheduled loops are exactly the one of
\* sceneRef.current, whatever select and close events came before, and the
\* loop of a torn-down scene is no longer scheduled.
C16_OneRenderLoop ==
    /\ Cardinality(renderLoops) <= 1
    /\ mounted => renderLoops = {sceneRef}
    /\ ~mounted => renderLoops = {}

====
